---- MODULE Spec2Model ----
(***************************************************************************)
(* A model of the JWT editor of src/src/App.jsx: the React state of the    *)
(* App component, its event handlers, its effects and the continuations of *)
(* its two asynchronous functions (generateToken, verifyToken).            *)
(*                                                                         *)
(* Representation of values                                                *)
(*  - a JSON object is the sequence of its <<key, value>> pairs, in        *)
(*    insertion order (the order JSON.stringify writes them in);           *)
(*  - a JSON text is a record: what it parses to and how it is laid out    *)
(*    (JSON.stringify(o) is "compact", JSON.stringify(o, null, 2) is       *)
(*    "pretty"), or a text that JSON.parse rejects;                        *)
(*  - a token text is the sequence of its dot-separated segments, which    *)
(*    is what String.split('.') yields; "" is the one-segment text whose   *)
(*    segment is empty;                                                    *)
(*  - a segment is the base64url of a JSON text, a base64url MAC, or raw   *)
(*    characters that are no base64url of JSON;                            *)
(*  - an HMAC is the symbolic value of its three inputs (no collisions).   *)
(***************************************************************************)
EXTENDS Integers, Sequences, FiniteSets, TLC

VARIABLES
    token,              \* useState('')                      App.jsx:79
    header,             \* header text                       App.jsx:80
    payload,            \* payload text                      App.jsx:81
    secret,             \* secret text                       App.jsx:82
    isVerified,         \* "null" | "true" | "false"         App.jsx:83
    algorithmSupported, \* BOOLEAN                           App.jsx:84
    tokenParts,         \* segments or error shown           App.jsx:85
    expEditMode,        \* "epoch" | "gmt" | "local"         App.jsx:86
    expDateValue,       \* text of the expiration input      App.jsx:87
    tokenHistory,       \* in-memory history, newest first   App.jsx:90
    storage,            \* localStorage['jwtTokenHistory']   App.jsx:102
    encodes,            \* generateToken calls suspended at their await
    verifies,           \* verifyToken calls suspended at their await
    clock,              \* Date.now() of the next completed encode
    version,            \* number of user events handled so far
    applied,            \* highest edit version whose generateToken has resumed
    ev,                 \* the step last taken (what it was, what it asked for)
    last,               \* the user event last handled
    batchTokens,        \* lines of the batch text          App.jsx:94
    batchExpValue,      \* text of the batch expiration     App.jsx:95
    batchExpMode,       \* "epoch" | "gmt" | "local"         App.jsx:96
    processedBatchTokens, \* results of the last batch run   App.jsx:97
    batchErrors,        \* errors of the last batch run      App.jsx:98
    probe               \* a timestamp taken through its display text and back

batchVars == << batchTokens, batchExpValue, batchExpMode, processedBatchTokens,
                batchErrors >>

vars == << token, header, payload, secret, isVerified, algorithmSupported,
           tokenParts, expEditMode, expDateValue, tokenHistory, storage,
           encodes, verifies, clock, version, applied, ev, last, batchTokens,
           batchExpValue, batchExpMode, processedBatchTokens, batchErrors,
           probe >>

----------------------------------------------------------------------------
(* Bounds of the model *)

\* user events (edits, loads, clears, mode switches) in one session
MaxEvents == 2
\* generateToken calls that may be suspended at the same time
MaxInFlight == 2
\* lines of a batch text
MaxLines == 3
\* the timestamps converted lie within MaxEpoch seconds of the epoch
MaxEpoch == 130

(* Program constants *)

\* saveToHistory keeps the first 10 entries
HistoryCap == 10
\* getTimezoneOffset() of the host, in minutes (UTC minus local time)
TzOffsetMin == -90
\* Math.floor(Date.now() / 1000) when the component is constructed
Now0 == 1000

----------------------------------------------------------------------------
(* JSON objects: sequences of <<key, value>> pairs *)

Keys(obj) == { obj[i][1] : i \in 1..Len(obj) }

Has(obj, k) == k \in Keys(obj)

\* obj[k]; "undefined" when the key is absent
Get(obj, k) ==
    IF Has(obj, k)
    THEN LET i == CHOOSE j \in 1..Len(obj) : obj[j][1] = k IN obj[i][2]
    ELSE "undefined"

\* delete obj[k]
Del(obj, k) == SelectSeq(obj, LAMBDA kv : kv[1] # k)

\* obj[k] = v: an existing key keeps its place, a new key goes last
Put(obj, k, v) ==
    IF Has(obj, k)
    THEN [ i \in 1..Len(obj) |-> IF obj[i][1] = k THEN <<k, v>> ELSE obj[i] ]
    ELSE Append(obj, <<k, v>>)

\* the first n elements of s (Array.prototype.slice(0, n))
Take(s, n) == SubSeq(s, 1, IF Len(s) < n THEN Len(s) ELSE n)

(* JSON texts *)

BadJson  == [k |-> "bad"]         \* JSON.parse throws
NullJson == [k |-> "null"]        \* the text null: parses, to no object

\* JSON.stringify(obj)
Stringify(obj) == [k |-> "obj", obj |-> obj, ws |-> "compact"]

\* JSON.stringify(obj, null, 2)
StringifyPretty(obj) == [k |-> "obj", obj |-> obj, ws |-> "pretty"]

\* whether JSON.parse(text) returns
Parses(text) == text.k # "bad"

\* whether JSON.parse(text) returns an object
ParsesToObject(text) == text.k = "obj"

\* JSON.parse(text), for a text that parses to an object
ParseObj(text) == text.obj

----------------------------------------------------------------------------
(* Token texts and the codec (the jose calls of App.jsx) *)

EmptySeg == [t |-> "raw", s |-> ""]

\* base64url of the UTF-8 bytes of a JSON text
B64(text) == [t |-> "b64", json |-> text]

\* base64url of HMAC(hash(alg), key, h "." p)
SigSeg(alg, key, h, p) == [t |-> "sig", alg |-> alg, key |-> key, over |-> <<h, p>>]

\* the text '' (''.split('.') is [''])
EmptyToken == << EmptySeg >>

\* !jwtToken || jwtToken.trim() === ''
IsEmptyText(tok) == tok = EmptyToken

supportedAlgorithms == {"HS256", "HS384", "HS512"}

\* supportedAlgorithms.includes(headerObj.alg)
IsSupported(headerObj) == Get(headerObj, "alg") \in supportedAlgorithms

\* a segment that base64url-decodes to the text of a JSON object
DecodesToObject(seg) == seg.t = "b64" /\ ParsesToObject(seg.json)

\* a sign() that rejects a key of no bytes and signs under any alg
SignThrowsOnEmptyKey(headerObj, payloadObj, secretKey) ==
    secretKey = ""

\* new SignJWT(payloadObj).setProtectedHeader(headerObj).sign(key) rejects:
\* an HMAC key of no bytes cannot be imported, and a key of bytes signs
\* with the HMAC algorithms only
SignThrows(headerObj, payloadObj, secretKey) ==
    secretKey = "" \/ ~IsSupported(headerObj)

\* the compact JWS that sign() resolves to
Sign(headerObj, payloadObj, secretKey) ==
    LET h == B64(Stringify(headerObj))
        p == B64(Stringify(payloadObj))
    IN  << h, p, SigSeg(Get(headerObj, "alg"), secretKey, h, p) >>

\* decodeProtectedHeader(value) and decodeJwt(value) both return
DecodeOk(value) ==
    /\ Len(value) = 3
    /\ DecodesToObject(value[1])
    /\ DecodesToObject(value[2])

decodeProtectedHeader(value) == ParseObj(value[1].json)

decodeJwt(value) == ParseObj(value[2].json)

\* the signature of a token is verified: three segments, a header object
\* with an HMAC alg, the MAC of the literal first two segments under the
\* key, and a payload that is a JSON object
SignatureMatches(jwtToken, secretKey) ==
    /\ secretKey # ""
    /\ Len(jwtToken) = 3
    /\ DecodesToObject(jwtToken[1])
    /\ IsSupported(ParseObj(jwtToken[1].json))
    /\ jwtToken[3] = SigSeg(Get(ParseObj(jwtToken[1].json), "alg"), secretKey,
                            jwtToken[1], jwtToken[2])
    /\ DecodesToObject(jwtToken[2])

\* a claim whose JSON value is the string s, marked as one where the key is
\* a time claim (a value without mark under such a key is a number)
StringClaim(k, s) == << k, s, "string" >>

\* typeof payloadObj[k] !== 'number' of a time claim that is present
NotNumber(payloadObj, k) ==
    \E i \in 1..Len(payloadObj) : payloadObj[i][1] = k /\ Len(payloadObj[i]) = 3

\* clockTolerance: a number of seconds, or Infinity
Seconds(n) == [finite |-> TRUE, n |-> n]
Infinity   == [finite |-> FALSE, n |-> 0]

\* a > b + tolerance
After(a, b, tolerance) == tolerance.finite /\ a > b + tolerance.n

\* the validation of the claims set in jwtVerify throws: iat, nbf or exp is
\* present and no number, nbf lies after now + tolerance, or exp does not
\* lie after now - tolerance
TimeClaimsThrow(payloadObj, now, tolerance) ==
    \/ NotNumber(payloadObj, "iat")
    \/ NotNumber(payloadObj, "nbf")
    \/ NotNumber(payloadObj, "exp")
    \/ Has(payloadObj, "nbf") /\ After(Get(payloadObj, "nbf"), now, tolerance)
    \/ /\ Has(payloadObj, "exp")
       /\ tolerance.finite
       /\ Get(payloadObj, "exp") <= now - tolerance.n

\* jwtVerify(jwtToken, key, {clockTolerance: Infinity}) resolves: the
\* signature is verified, then the claims set is validated
JwtVerify(jwtToken, secretKey) ==
    /\ SignatureMatches(jwtToken, secretKey)
    /\ ~TimeClaimsThrow(ParseObj(jwtToken[2].json), Now0, Infinity)

\* what verifyToken stores in isVerified
VerifyResult(jwtToken, secretKey) ==
    IF JwtVerify(jwtToken, secretKey) THEN "true" ELSE "false"

----------------------------------------------------------------------------
(* The token segments shown (tokenParts) *)

Parts(h, p, s, err, type, msg) ==
    [header |-> h, payload |-> p, signature |-> s,
     error |-> err, errorType |-> type, errorMessage |-> msg]

NoParts == Parts(EmptySeg, EmptySeg, EmptySeg, FALSE, "", "")

ErrorParts(type, msg) == Parts(EmptySeg, EmptySeg, EmptySeg, TRUE, type, msg)

\* the value updateTokenParts(jwtToken) stores
updateTokenParts(jwtToken) ==
    IF IsEmptyText(jwtToken) THEN NoParts
    ELSE IF /\ Len(jwtToken) = 3
            /\ jwtToken[1] # EmptySeg
            /\ jwtToken[2] # EmptySeg
            /\ jwtToken[3] # EmptySeg
         THEN Parts(jwtToken[1], jwtToken[2], jwtToken[3], FALSE, "", "")
         ELSE ErrorParts("invalidFormat", "Invalid JWT format")

----------------------------------------------------------------------------
(* Expiration texts: a decimal integer, a wall-clock minute                *)
(* "YYYY-MM-DDTHH:mm" (counted in minutes from 1970-01-01T00:00 on that    *)
(* clock), the empty text, or other characters                             *)

Dec(n)    == [k |-> "dec", n |-> n]
Wall(m)   == [k |-> "wall", n |-> m]
NoText    == [k |-> "none", n |-> 0]
JunkText  == [k |-> "junk", n |-> 0]
\* a decimal number with a fraction, the digits of n followed by ".5"
Frac(n)   == [k |-> "frac", n |-> n]

NaN     == [ok |-> FALSE, n |-> 0]
Num(n)  == [ok |-> TRUE, n |-> n]

\* the display text with the minute rounded to the nearest
ToDisplayRounding(epochTime, mode, tz) ==
    CASE mode = "epoch" -> Dec(epochTime)
      [] mode = "gmt"   -> Wall((epochTime + 30) \div 60)
      [] mode = "local" -> Wall((epochTime - tz * 60 + 30) \div 60)

\* the text updateExpEditValue / handleExpModeChange shows for epochTime on
\* a host whose Date.getTimezoneOffset() is tz: toString(),
\* toISOString().slice(0, 16), or the fields getFullYear() .. getMinutes()
ToDisplayAt(epochTime, mode, tz) ==
    CASE mode = "epoch" -> Dec(epochTime)
      [] mode = "gmt"   -> Wall(epochTime \div 60)
      [] mode = "local" -> Wall((epochTime - tz * 60) \div 60)

ToDisplay(epochTime, mode) == ToDisplayAt(epochTime, mode, TzOffsetMin)

\* newExpTime as the older handleExpValueChange computes it: new Date(value)
\* in gmt mode, and in local mode the offset added to what new Date(value)
\* has already read as local time
FromDisplayOlder(value, mode, tz) ==
    CASE mode = "epoch" -> IF value.k \in { "dec", "frac" } THEN Num(value.n)
                           ELSE NaN
      [] mode = "gmt"   -> IF value.k = "wall"
                           THEN Num(value.n * 60 + tz * 60) ELSE NaN
      [] mode = "local" -> IF value.k = "wall"
                           THEN Num(value.n * 60 + 2 * tz * 60) ELSE NaN

\* newExpTime of handleExpValueChange: parseInt(value),
\* Math.floor(new Date(value + ':00Z') / 1000), Math.floor(new Date(value) / 1000).
\* parseInt reads the leading digits, so of a wall-clock text its year.
\* The host offset is tz.
FromDisplayAt(value, mode, tz) ==
    CASE mode = "epoch" -> IF value.k \in { "dec", "frac" } THEN Num(value.n)
                           ELSE IF value.k = "wall"
                           THEN Num(1970 + value.n \div (365 * 24 * 60))
                           ELSE NaN
      [] mode = "gmt"   -> IF value.k = "wall" THEN Num(value.n * 60) ELSE NaN
      [] mode = "local" -> IF value.k = "wall"
                           THEN Num(value.n * 60 + tz * 60) ELSE NaN

FromDisplay(value, mode) == FromDisplayAt(value, mode, TzOffsetMin)

\* the texts the expiration input of a mode delivers: type="number" in
\* epoch mode, type="datetime-local" otherwise
Delivers(mode, value) ==
    value.k = "none" \/ (mode = "epoch" <=> value.k \in { "dec", "frac" })

\* a timestamp before it is displayed, no timestamp being converted
NoProbe == [stage |-> "none"]

\* the round trip of a timestamp: its display text, and the text read back
Shown(p) ==
    [stage |-> "shown", epoch |-> p.epoch, mode |-> p.mode, tz |-> p.tz,
     text |-> ToDisplayAt(p.epoch, p.mode, p.tz)]

ReadBack(p) ==
    [stage |-> "read", epoch |-> p.epoch, mode |-> p.mode, tz |-> p.tz,
     text |-> p.text, back |-> FromDisplayAt(p.text, p.mode, p.tz)]

\* if (payloadObj.exp): exp is present and not 0
ExpTruthy(payloadObj) == Has(payloadObj, "exp") /\ Get(payloadObj, "exp") # 0

\* expDateValue after `if (payloadObj.exp) updateExpEditValue(payloadObj.exp)`
RefreshExp(payloadObj, mode, shown) ==
    IF ExpTruthy(payloadObj) THEN ToDisplay(Get(payloadObj, "exp"), mode) ELSE shown

----------------------------------------------------------------------------
(* Values of the session *)

defaultHeader == << <<"alg", "HS256">>, <<"typ", "JWT">> >>

defaultPayload == << <<"sub", "1234567890">>, <<"name", "John Doe">>,
                     <<"iat", Now0>>, <<"exp", Now0 + 3600>> >>

defaultSecret == "your-256-bit-secret"

\* a header whose alg is outside the supported set
noneHeader == << <<"alg", "none">>, <<"typ", "JWT">> >>

hs384Header == << <<"alg", "HS384">> >>

otherPayload == << <<"sub", "2">>, <<"exp", 120>> >>

\* the default value of a standard claim (STANDARD_HEADER_CLAIMS,
\* STANDARD_PAYLOAD_CLAIMS)
ClaimDefault(claimKey) ==
    CASE claimKey = "alg" -> "HS256"
      [] claimKey = "typ" -> "JWT"
      [] claimKey = "exp" -> Now0 + 3600
      [] claimKey \in {"nbf", "iat"} -> Now0
      [] OTHER -> ""

\* a parsed JSON value: an object, or null
Obj(o)  == [k |-> "obj", obj |-> o]
Null    == [k |-> "null"]

\* JSON.parse(text), for a text that parses
JsonParse(text) == IF text.k = "obj" THEN Obj(text.obj) ELSE Null

(* The texts a user enters *)

HeaderTexts ==
    { StringifyPretty(defaultHeader), Stringify(hs384Header),
      StringifyPretty(noneHeader), BadJson, NullJson }

PayloadTexts ==
    { StringifyPretty(defaultPayload), Stringify(otherPayload), BadJson, NullJson }

SecretTexts == { defaultSecret, "s2", "", " " }

TokenTexts ==
    { EmptyToken,
      << [t |-> "raw", s |-> "abc"] >>,
      Sign(defaultHeader, otherPayload, defaultSecret),
      Sign(hs384Header, otherPayload, "s2") }

ExpTexts == { Dec(120), Wall(3), NoText }

Modes == { "epoch", "gmt", "local" }

HeaderToggles == { "alg", "kid" }

PayloadToggles == { "exp", "iss" }

(* History entries *)

\* the historyItem of saveToHistory, made at Date.now() = now
HistoryItem(jwt, headerObj, payloadObj, now) ==
    [id |-> now, token |-> jwt, header |-> headerObj, payload |-> payloadObj,
     timestamp |-> now]

\* the i-th newest entry persisted by an earlier session, which encoded
\* otherPayload again and again
OldEntry(i) ==
    HistoryItem(Sign(defaultHeader, otherPayload, defaultSecret),
                defaultHeader, otherPayload, 0 - i)

\* a persisted history of n entries, newest first
Stored(n) == [ i \in 1..n |-> OldEntry(i) ]

\* what localStorage holds when a first session starts
FreshStorages == { Stored(0) }

\* what it may hold when a later session starts
InitialStorages == { Stored(HistoryCap - 1), Stored(HistoryCap) }

----------------------------------------------------------------------------
(* generateToken up to its await, and the effect on [token, secret] *)

\* how the synchronous part of generateToken(headerObj, payloadObj, _) ends:
\* "threw" (reading .alg of null, or new SignJWT(null)), "unsupported",
\* or "started" (suspended at the await of sign)
GenOutcome(hv, pv) ==
    IF hv.k # "obj" THEN "threw"
    ELSE IF ~IsSupported(hv.obj) THEN "unsupported"
    ELSE IF pv.k # "obj" THEN "threw"
    ELSE "started"

\* the suspended call: its arguments, and the tokenHistory its closure holds
Job(hv, pv, secretKey) ==
    [ver |-> version + 1, headerObj |-> hv.obj, payloadObj |-> pv.obj,
     secretKey |-> secretKey, hist |-> tokenHistory]

generateToken(hv, pv, secretKey) ==
    LET outcome == GenOutcome(hv, pv)
    IN  /\ outcome = "started" => Cardinality(encodes) < MaxInFlight
        /\ algorithmSupported' = (outcome = "started")
        /\ encodes' = IF outcome = "started"
                      THEN encodes \cup { Job(hv, pv, secretKey) }
                      ELSE encodes

noGenerate == UNCHANGED << algorithmSupported, encodes >>

\* the effect with the dependency list [token]
VerifyEffectOnToken ==
    verifies' = IF token' # token /\ token' # EmptyToken /\ secret' # ""
                THEN verifies \cup { [jwtToken |-> token', secretKey |-> secret'] }
                ELSE verifies

\* the effect with the dependency list [secret]
VerifyEffectOnSecret ==
    verifies' = IF secret' # secret /\ token' # EmptyToken /\ secret' # ""
                THEN verifies \cup { [jwtToken |-> token', secretKey |-> secret'] }
                ELSE verifies

\* useEffect(() => { if (token && secret) verifyToken(token, secret) },
\*           [token, secret]) after the render that follows a step
VerifyEffect ==
    verifies' = IF /\ (token' # token \/ secret' # secret)
                   /\ token' # EmptyToken
                   /\ secret' # ""
                THEN verifies \cup { [jwtToken |-> token', secretKey |-> secret'] }
                ELSE verifies

\* a user event is handled: the next edit version
Event(op, gen) ==
    /\ version < MaxEvents
    /\ version' = version + 1
    /\ applied' = applied
    /\ ev' = [op |-> op, gen |-> gen, ver |-> version + 1]
    /\ last' = ev'
    /\ UNCHANGED batchVars
    /\ UNCHANGED probe

----------------------------------------------------------------------------
(* Batch re-signing.  The batch text is the sequence of its lines, each    *)
(* line trimmed: the empty token text is a blank line.                     *)

\* the batch text '' (''.split('\n') is [''])
EmptyText == << EmptyToken >>

\* t => t.trim()
NonBlank(line) == line # EmptyToken

\* batchTokens.split('\n').filter(t => t.trim())
FilterLines(text) == SelectSeq(text, NonBlank)

\* 00:00 of 1 January of year y on the local clock, in epoch seconds
YearStart(y) ==
    LET leaps(z) == (z - 1) \div 4 - (z - 1) \div 100 + (z - 1) \div 400
        days     == 365 * (y - 1970) + leaps(y) - leaps(1970)
    IN  days * 86400 + TzOffsetMin * 60

\* the values newExpTime may take in processBatchTokens.  new Date of a
\* decimal text without a suffix is left to the engine's fallback parser:
\* an invalid date, or the start of that year.
BatchExpTimes(value, mode) ==
    IF mode = "local" /\ value.k = "dec"
    THEN { NaN, Num(YearStart(value.n)) }
    ELSE { FromDisplay(value, mode) }

\* the body of the try completes for this line
Resigns(line, secretKey) ==
    /\ DecodeOk(line)
    /\ ~SignThrows(decodeProtectedHeader(line), decodeJwt(line), secretKey)

\* a result whose payload is the new exp alone
BatchResultExpOnly(line, i, newExpTime, secretKey) ==
    LET decodedHeader  == decodeProtectedHeader(line)
        decodedPayload == << <<"exp", newExpTime>> >>
    IN  [original |-> line,
         newToken |-> Sign(decodedHeader, decodedPayload, secretKey),
         header |-> decodedHeader, payload |-> decodedPayload,
         newExp |-> newExpTime, lineNumber |-> i]

\* what is pushed on processedTokens for tokens[i]
BatchResult(line, i, newExpTime, secretKey) ==
    LET decodedHeader  == decodeProtectedHeader(line)
        decodedPayload == Put(decodeJwt(line), "exp", newExpTime)
    IN  [original |-> line,
         newToken |-> Sign(decodedHeader, decodedPayload, secretKey),
         header |-> decodedHeader, payload |-> decodedPayload,
         newExp |-> newExpTime, lineNumber |-> i]

\* what is pushed on errors for tokens[i]: `Line ${i + 1}: ...`
BatchError(line, i) ==
    [lineNumber |-> i,
     message |-> IF DecodeOk(line) THEN "sign" ELSE "decode"]

\* an entry of batchErrors that names no line
BatchMessage(msg) == [lineNumber |-> 0, message |-> msg]

\* a loop that puts each result in front of the earlier ones
RECURSIVE ProcessedNewestFirst(_, _, _, _)
ProcessedNewestFirst(tokens, i, newExpTime, secretKey) ==
    IF i > Len(tokens) THEN << >>
    ELSE ProcessedNewestFirst(tokens, i + 1, newExpTime, secretKey)
         \o (IF Resigns(tokens[i], secretKey)
             THEN << BatchResult(tokens[i], i, newExpTime, secretKey) >>
             ELSE << >>)

\* processedTokens after the loop over tokens
RECURSIVE ProcessedFrom(_, _, _, _)
ProcessedFrom(tokens, i, newExpTime, secretKey) ==
    IF i > Len(tokens) THEN << >>
    ELSE (IF Resigns(tokens[i], secretKey)
          THEN << BatchResult(tokens[i], i, newExpTime, secretKey) >>
          ELSE << >>)
         \o ProcessedFrom(tokens, i + 1, newExpTime, secretKey)

\* a loop that reports the first failure only
ErrorsFirstOnly(tokens, i, secretKey) ==
    LET failing == { j \in i..Len(tokens) : ~Resigns(tokens[j], secretKey) }
    IN  IF failing = { } THEN << >>
        ELSE LET j == CHOOSE m \in failing : \A n \in failing : m <= n
             IN  << BatchError(tokens[j], j) >>

\* errors after the loop over tokens
RECURSIVE ErrorsFrom(_, _, _)
ErrorsFrom(tokens, i, secretKey) ==
    IF i > Len(tokens) THEN << >>
    ELSE (IF Resigns(tokens[i], secretKey)
          THEN << >>
          ELSE << BatchError(tokens[i], i) >>)
         \o ErrorsFrom(tokens, i + 1, secretKey)

----------------------------------------------------------------------------
(* The state after construction: the three mount effects have run.  The   *)
(* first has loaded the persisted history; the second has called          *)
(* generateToken from the first render, whose tokenHistory is [], and is   *)
(* suspended in sign; the third found token empty.                         *)

SessionInit(storages) ==
    /\ token = EmptyToken
    /\ header = StringifyPretty(defaultHeader)
    /\ payload = StringifyPretty(defaultPayload)
    /\ secret = defaultSecret
    /\ isVerified = "null"
    /\ algorithmSupported = TRUE
    /\ tokenParts = NoParts
    /\ expEditMode = "epoch"
    /\ expDateValue = NoText
    /\ storage \in storages
    /\ tokenHistory = storage
    /\ encodes = { [ver |-> 0, headerObj |-> defaultHeader,
                    payloadObj |-> defaultPayload, secretKey |-> defaultSecret,
                    hist |-> << >>] }
    /\ verifies = { }
    /\ clock = 1
    /\ version = 0
    /\ applied = 0 - 1
    /\ ev = [op |-> "init", gen |-> "started", ver |-> 0]
    /\ last = ev

\* the batch dialog as constructed
BatchInit ==
    /\ batchTokens = EmptyText
    /\ batchExpValue = NoText
    /\ batchExpMode = "epoch"
    /\ processedBatchTokens = << >>
    /\ batchErrors = << >>

InitWith(storages) == SessionInit(storages) /\ BatchInit /\ probe = NoProbe

Init == InitWith(FreshStorages)

InitStored == InitWith(InitialStorages)

----------------------------------------------------------------------------
(* Event handlers *)

\* !value || value.trim() === ''
IsBlank(value) == value \in { "", " " }

\* handleHeaderChange with a catch that also resets the token shown
handleHeaderChangeResetting(value) ==
    /\ header' = value
    /\ IF Parses(value) /\ Parses(payload)
       THEN /\ generateToken(JsonParse(value), JsonParse(payload), secret)
            /\ UNCHANGED << token, tokenParts >>
            /\ Event("EditHeader", GenOutcome(JsonParse(value), JsonParse(payload)))
       ELSE /\ token' = EmptyToken
            /\ tokenParts' = ErrorParts("invalidJson", "Invalid JSON in Header")
            /\ noGenerate
            /\ Event("EditHeader", "none")
    /\ UNCHANGED << payload, secret, isVerified, expEditMode, expDateValue,
                    tokenHistory, storage, clock >>
    /\ VerifyEffect

handleHeaderChange(value) ==
    /\ header' = value
    /\ IF Parses(value) /\ Parses(payload)
       THEN /\ generateToken(JsonParse(value), JsonParse(payload), secret)
            /\ tokenParts' = tokenParts
            /\ Event("EditHeader", GenOutcome(JsonParse(value), JsonParse(payload)))
       ELSE /\ tokenParts' = ErrorParts("invalidJson", "Invalid JSON in Header")
            /\ noGenerate
            /\ Event("EditHeader", "none")
    /\ UNCHANGED << token, payload, secret, isVerified, expEditMode, expDateValue,
                    tokenHistory, storage, clock >>
    /\ VerifyEffect

handlePayloadChange(value) ==
    /\ payload' = value
    /\ IF Parses(header) /\ Parses(value)
       THEN /\ generateToken(JsonParse(header), JsonParse(value), secret)
            /\ Event("EditPayload", GenOutcome(JsonParse(header), JsonParse(value)))
            /\ IF ParsesToObject(value)
               THEN /\ expDateValue' = RefreshExp(ParseObj(value), expEditMode, expDateValue)
                    /\ tokenParts' = tokenParts
               ELSE \* payloadObj.exp of null throws, into the catch
                    /\ expDateValue' = expDateValue
                    /\ tokenParts' = ErrorParts("invalidJson", "Invalid JSON in Payload")
       ELSE /\ tokenParts' = ErrorParts("invalidJson", "Invalid JSON in Payload")
            /\ noGenerate
            /\ expDateValue' = expDateValue
            /\ Event("EditPayload", "none")
    /\ UNCHANGED << token, header, secret, isVerified, expEditMode,
                    tokenHistory, storage, clock >>
    /\ VerifyEffect

\* handleSecretChange without its check of an empty value
handleSecretChangeUnchecked(value) ==
    /\ secret' = value
    /\ IF Parses(header) /\ Parses(payload)
       THEN /\ generateToken(JsonParse(header), JsonParse(payload), value)
            /\ Event("EditSecret", GenOutcome(JsonParse(header), JsonParse(payload)))
       ELSE /\ noGenerate
            /\ Event("EditSecret", "none")
    /\ UNCHANGED << token, header, payload, isVerified, tokenParts, expEditMode,
                    expDateValue, tokenHistory, storage, clock >>
    /\ VerifyEffect

handleSecretChange(value) ==
    /\ secret' = value
    /\ IF IsBlank(value)
       THEN /\ tokenParts' = ErrorParts("emptySecret", "Secret key cannot be empty")
            /\ noGenerate
            /\ Event("EditSecret", "none")
       ELSE IF Parses(header) /\ Parses(payload)
       THEN /\ generateToken(JsonParse(header), JsonParse(payload), value)
            /\ tokenParts' = tokenParts
            /\ Event("EditSecret", GenOutcome(JsonParse(header), JsonParse(payload)))
       ELSE /\ tokenParts' = tokenParts
            /\ noGenerate
            /\ Event("EditSecret", "none")
    /\ UNCHANGED << token, header, payload, isVerified, expEditMode, expDateValue,
                    tokenHistory, storage, clock >>
    /\ VerifyEffect

\* handleTokenChange that encodes what it has decoded
handleTokenChangeReencoding(value) ==
    /\ token' = value
    /\ tokenParts' = updateTokenParts(value)
    /\ IF DecodeOk(value)
       THEN /\ header' = StringifyPretty(decodeProtectedHeader(value))
            /\ payload' = StringifyPretty(decodeJwt(value))
            /\ expDateValue' = RefreshExp(decodeJwt(value), expEditMode, expDateValue)
            /\ isVerified' = isVerified
            /\ generateToken(Obj(decodeProtectedHeader(value)),
                             Obj(decodeJwt(value)), secret)
            /\ Event("EditToken", GenOutcome(Obj(decodeProtectedHeader(value)),
                                             Obj(decodeJwt(value))))
       ELSE /\ isVerified' = "null"
            /\ noGenerate
            /\ Event("EditToken", "none")
            /\ UNCHANGED << header, payload, expDateValue >>
    /\ UNCHANGED << secret, expEditMode, tokenHistory, storage, clock >>
    /\ VerifyEffect

\* a handler that decodes only while a secret is entered
handleTokenChangeNeedingSecret(value) ==
    /\ token' = value
    /\ tokenParts' = updateTokenParts(value)
    /\ IF DecodeOk(value) /\ secret # ""
       THEN /\ header' = StringifyPretty(decodeProtectedHeader(value))
            /\ payload' = StringifyPretty(decodeJwt(value))
            /\ expDateValue' = RefreshExp(decodeJwt(value), expEditMode, expDateValue)
            /\ isVerified' = isVerified
       ELSE /\ isVerified' = "null"
            /\ UNCHANGED << header, payload, expDateValue >>
    /\ noGenerate
    /\ Event("EditToken", "none")
    /\ UNCHANGED << secret, expEditMode, tokenHistory, storage, clock >>
    /\ VerifyEffect

handleTokenChange(value) ==
    /\ token' = value
    /\ tokenParts' = updateTokenParts(value)
    /\ IF DecodeOk(value)
       THEN /\ header' = StringifyPretty(decodeProtectedHeader(value))
            /\ payload' = StringifyPretty(decodeJwt(value))
            /\ expDateValue' = RefreshExp(decodeJwt(value), expEditMode, expDateValue)
            /\ isVerified' = isVerified
       ELSE /\ isVerified' = "null"
            /\ UNCHANGED << header, payload, expDateValue >>
    /\ noGenerate
    /\ Event("EditToken", "none")
    /\ UNCHANGED << secret, expEditMode, tokenHistory, storage, clock >>
    /\ VerifyEffect

handleExpModeChange(mode) ==
    /\ expEditMode' = mode
    /\ expDateValue' = IF ParsesToObject(payload)
                       THEN RefreshExp(ParseObj(payload), mode, expDateValue)
                       ELSE expDateValue
    /\ noGenerate
    /\ Event("ExpMode", "none")
    /\ UNCHANGED << token, header, payload, secret, isVerified, tokenParts,
                    tokenHistory, storage, clock >>
    /\ VerifyEffect

handleExpValueChange(value) ==
    LET newExpTime == FromDisplay(value, expEditMode)
        newObj     == Put(ParseObj(payload), "exp", newExpTime.n)
    IN
    /\ expDateValue' = value
    /\ IF ParsesToObject(payload) /\ newExpTime.ok
       THEN /\ payload' = StringifyPretty(newObj)
            /\ IF Parses(header)
               THEN /\ generateToken(JsonParse(header), Obj(newObj), secret)
                    /\ Event("EditExp", GenOutcome(JsonParse(header), Obj(newObj)))
               ELSE /\ noGenerate
                    /\ Event("EditExp", "none")
       ELSE /\ payload' = payload
            /\ noGenerate
            /\ Event("EditExp", "none")
    /\ UNCHANGED << token, header, secret, isVerified, tokenParts, expEditMode,
                    tokenHistory, storage, clock >>
    /\ VerifyEffect

\* the object toggleClaim makes of obj
Toggled(obj, claimKey) ==
    IF Has(obj, claimKey) THEN Del(obj, claimKey)
    ELSE Put(obj, claimKey, ClaimDefault(claimKey))

toggleClaim(claimKey, isHeader) ==
    LET jsonString == IF isHeader THEN header ELSE payload
        other      == IF isHeader THEN payload ELSE header
        newObj     == Toggled(ParseObj(jsonString), claimKey)
        hv         == IF isHeader THEN Obj(newObj) ELSE JsonParse(header)
        pv         == IF isHeader THEN JsonParse(payload) ELSE Obj(newObj)
    IN
    /\ IF ParsesToObject(jsonString)
       THEN /\ header' = IF isHeader THEN StringifyPretty(newObj) ELSE header
            /\ payload' = IF isHeader THEN payload ELSE StringifyPretty(newObj)
            /\ IF Parses(other)
               THEN /\ generateToken(hv, pv, secret)
                    /\ Event("Toggle", GenOutcome(hv, pv))
                    /\ expDateValue' = IF ~isHeader /\ claimKey = "exp"
                                       THEN RefreshExp(newObj, expEditMode, expDateValue)
                                       ELSE expDateValue
               ELSE /\ noGenerate
                    /\ Event("Toggle", "none")
                    /\ expDateValue' = expDateValue
       ELSE /\ UNCHANGED << header, payload, expDateValue >>
            /\ noGenerate
            /\ Event("Toggle", "none")
    /\ UNCHANGED << token, secret, isVerified, tokenParts, expEditMode,
                    tokenHistory, storage, clock >>
    /\ VerifyEffect

loadFromHistory(historyItem) ==
    /\ token' = historyItem.token
    /\ header' = StringifyPretty(historyItem.header)
    /\ payload' = StringifyPretty(historyItem.payload)
    /\ tokenParts' = updateTokenParts(historyItem.token)
    /\ expDateValue' = RefreshExp(historyItem.payload, expEditMode, expDateValue)
    /\ noGenerate
    /\ Event("LoadHistory", "none")
    /\ UNCHANGED << secret, isVerified, expEditMode, tokenHistory, storage, clock >>
    /\ VerifyEffect

\* a Clear that empties the history shown and leaves the store
clearHistoryShownOnly ==
    /\ tokenHistory' = << >>
    /\ storage' = storage
    /\ noGenerate
    /\ Event("ClearHistory", "none")
    /\ UNCHANGED << token, header, payload, secret, isVerified, tokenParts,
                    expEditMode, expDateValue, clock >>
    /\ VerifyEffect

clearHistory ==
    /\ tokenHistory' = << >>
    /\ storage' = << >>
    /\ noGenerate
    /\ Event("ClearHistory", "none")
    /\ UNCHANGED << token, header, payload, secret, isVerified, tokenParts,
                    expEditMode, expDateValue, clock >>
    /\ VerifyEffect

----------------------------------------------------------------------------
(* The batch dialog *)

\* the state outside the batch dialog
sessionVars == << token, header, payload, secret, isVerified, algorithmSupported,
                  tokenParts, expEditMode, expDateValue, tokenHistory, storage,
                  encodes, verifies, clock, version, applied, last, probe >>

\* a batch step that shows the first token it signed in the token field
BatchEventShowingToken(op, gen) ==
    /\ ev' = [op |-> op, gen |-> gen, ver |-> version]
    /\ token' = IF gen = "ran" /\ Len(processedBatchTokens') > 0
                THEN processedBatchTokens'[1].newToken
                ELSE token
    /\ UNCHANGED << header, payload, secret, isVerified, algorithmSupported,
                    tokenParts, expEditMode, expDateValue, tokenHistory, storage,
                    encodes, verifies, clock, version, applied, last, probe >>

BatchEvent(op, gen) ==
    /\ ev' = [op |-> op, gen |-> gen, ver |-> version]
    /\ UNCHANGED sessionVars

setBatchTokens(value) ==
    /\ batchTokens' = value
    /\ BatchEvent("setBatchTokens", "none")
    /\ UNCHANGED << batchExpValue, batchExpMode, processedBatchTokens, batchErrors >>

setBatchExpValue(value) ==
    /\ batchExpValue' = value
    /\ BatchEvent("setBatchExpValue", "none")
    /\ UNCHANGED << batchTokens, batchExpMode, processedBatchTokens, batchErrors >>

setBatchExpMode(mode) ==
    /\ batchExpMode' = mode
    /\ BatchEvent("setBatchExpMode", "none")
    /\ UNCHANGED << batchTokens, batchExpValue, processedBatchTokens, batchErrors >>

resetBatchProcessing ==
    /\ batchTokens' = EmptyText
    /\ batchExpValue' = NoText
    /\ batchExpMode' = "epoch"
    /\ processedBatchTokens' = << >>
    /\ batchErrors' = << >>
    /\ BatchEvent("resetBatchProcessing", "none")

\* processBatchTokens, from the click to its two final setState calls; it
\* works on the values of the render that called it and on locals
processBatchTokens ==
    LET tokens == FilterLines(batchTokens)
    IN
    /\ IF batchExpValue = NoText \/ batchTokens = EmptyText
       THEN /\ batchErrors' =
                 << BatchMessage("Please provide both tokens and expiration time") >>
            /\ processedBatchTokens' = processedBatchTokens
            /\ BatchEvent("processBatchTokens", "missing")
       ELSE \E newExpTime \in BatchExpTimes(batchExpValue, batchExpMode) :
            IF ~newExpTime.ok
            THEN /\ batchErrors' = << BatchMessage("Invalid expiration time format") >>
                 /\ processedBatchTokens' = processedBatchTokens
                 /\ BatchEvent("processBatchTokens", "invalid")
            ELSE /\ processedBatchTokens' =
                      ProcessedFrom(tokens, 1, newExpTime.n, secret)
                 /\ batchErrors' = ErrorsFrom(tokens, 1, secret)
                 /\ BatchEvent("processBatchTokens", "ran")
    /\ UNCHANGED << batchTokens, batchExpValue, batchExpMode >>

----------------------------------------------------------------------------
(* Continuations of the asynchronous functions *)

\* saveToHistory without its slice(0, 10)
saveToHistoryUncut(jwt, headerObj, payloadObj, hist, now) ==
    << HistoryItem(jwt, headerObj, payloadObj, now) >> \o hist

\* saveToHistory(jwt, headerObj, payloadObj) in a closure whose tokenHistory
\* is hist: the new history
saveToHistory(jwt, headerObj, payloadObj, hist, now) ==
    Take(<< HistoryItem(jwt, headerObj, payloadObj, now) >> \o hist, HistoryCap)

\* generateToken after its await: sign resolved, or rejected into the catch
\* a continuation that sets the token and leaves the segments shown
generateTokenResumeKeepingParts(job) ==
    LET jwt == Sign(job.headerObj, job.payloadObj, job.secretKey)
        newHistory == saveToHistory(jwt, job.headerObj, job.payloadObj, job.hist, clock)
    IN
    /\ job \in encodes
    /\ encodes' = encodes \ { job }
    /\ applied' = IF job.ver > applied THEN job.ver ELSE applied
    /\ IF SignThrows(job.headerObj, job.payloadObj, job.secretKey)
       THEN /\ algorithmSupported' = FALSE
            /\ ev' = [op |-> "EncodeFailed", gen |-> "none", ver |-> job.ver]
            /\ UNCHANGED << token, tokenParts, tokenHistory, storage, clock >>
       ELSE /\ token' = jwt
            /\ tokenParts' = tokenParts
            /\ tokenHistory' = newHistory
            /\ storage' = newHistory
            /\ clock' = clock + 1
            /\ algorithmSupported' = algorithmSupported
            /\ ev' = [op |-> "EncodeDone", gen |-> "none", ver |-> job.ver]
    /\ UNCHANGED << header, payload, secret, isVerified, expEditMode, expDateValue,
                    version, last, probe >>
    /\ UNCHANGED batchVars
    /\ VerifyEffect

generateTokenResume(job) ==
    LET jwt == Sign(job.headerObj, job.payloadObj, job.secretKey)
        newHistory == saveToHistory(jwt, job.headerObj, job.payloadObj, job.hist, clock)
    IN
    /\ job \in encodes
    /\ encodes' = encodes \ { job }
    /\ applied' = IF job.ver > applied THEN job.ver ELSE applied
    /\ IF SignThrows(job.headerObj, job.payloadObj, job.secretKey)
       THEN /\ algorithmSupported' = FALSE
            /\ ev' = [op |-> "EncodeFailed", gen |-> "none", ver |-> job.ver]
            /\ UNCHANGED << token, tokenParts, tokenHistory, storage, clock >>
       ELSE /\ token' = jwt
            /\ tokenParts' = updateTokenParts(jwt)
            /\ tokenHistory' = newHistory
            /\ storage' = newHistory
            /\ clock' = clock + 1
            /\ algorithmSupported' = algorithmSupported
            /\ ev' = [op |-> "EncodeDone", gen |-> "none", ver |-> job.ver]
    /\ UNCHANGED << header, payload, secret, isVerified, expEditMode, expDateValue,
                    version, last, probe >>
    /\ UNCHANGED batchVars
    /\ VerifyEffect

\* verifyToken after its await
verifyTokenResume(job) ==
    /\ job \in verifies
    /\ verifies' = verifies \ { job }
    /\ isVerified' = VerifyResult(job.jwtToken, job.secretKey)
    /\ ev' = [op |-> "VerifyDone", gen |-> "none", ver |-> version]
    /\ UNCHANGED << token, header, payload, secret, algorithmSupported, tokenParts,
                    expEditMode, expDateValue, tokenHistory, storage, encodes,
                    clock, version, applied, last, probe >>
    /\ UNCHANGED batchVars

----------------------------------------------------------------------------
(* The session *)

\* onChange of a controlled field is delivered when its value changes
EditHeader == \E value \in HeaderTexts \ { header } : handleHeaderChange(value)

EditPayload == \E value \in PayloadTexts \ { payload } : handlePayloadChange(value)

EditSecret == \E value \in SecretTexts \ { secret } : handleSecretChange(value)

EditToken == \E value \in TokenTexts \ { token } : handleTokenChange(value)

EditExpMode == \E mode \in Modes : handleExpModeChange(mode)

EditExpValue ==
    \E value \in ExpTexts \ { expDateValue } :
        Delivers(expEditMode, value) /\ handleExpValueChange(value)

ToggleHeaderClaim == \E claimKey \in HeaderToggles : toggleClaim(claimKey, TRUE)

TogglePayloadClaim == \E claimKey \in PayloadToggles : toggleClaim(claimKey, FALSE)

LoadHistory == \E i \in 1..Len(tokenHistory) : loadFromHistory(tokenHistory[i])

ClearHistory == clearHistory

EncodeCompletes == \E job \in encodes : generateTokenResume(job)

VerifyCompletes == \E job \in verifies : verifyTokenResume(job)

Next ==
    \/ EditHeader
    \/ EditPayload
    \/ EditSecret
    \/ EditToken
    \/ EditExpMode
    \/ EditExpValue
    \/ ToggleHeaderClaim
    \/ TogglePayloadClaim
    \/ LoadHistory
    \/ ClearHistory
    \/ EncodeCompletes
    \/ VerifyCompletes

\* a first session, every handler
Spec == Init /\ [][Next]_vars

\* a later session (the storage holds an earlier session's history): the
\* handlers that read or write the history
NextStored ==
    \/ EditHeader
    \/ LoadHistory
    \/ ClearHistory
    \/ EncodeCompletes
    \/ VerifyCompletes

SpecStored == InitStored /\ [][NextStored]_vars

\* a first session, the four edit events only
NextEdit ==
    \/ EditHeader
    \/ EditPayload
    \/ EditSecret
    \/ EditToken
    \/ EncodeCompletes
    \/ VerifyCompletes

SpecEdit == Init /\ [][NextEdit]_vars

(* A first session in which token texts of every shape are pasted *)

\* the text splits on '.' into exactly three segments, none of them empty
ThreeSegments(value) ==
    /\ Len(value) = 3
    /\ \A i \in 1..3 : value[i] # EmptySeg

RawSeg(s) == [t |-> "raw", s |-> s]

\* '', 'abc', 'a.b', 'a.b.c.d', 'a..c', 'a.b.c', a header and a payload
\* followed by an empty third segment, and a token signed elsewhere
FormatTexts ==
    { EmptyToken,
      << RawSeg("abc") >>,
      << RawSeg("a"), RawSeg("b") >>,
      << RawSeg("a"), RawSeg("b"), RawSeg("c"), RawSeg("d") >>,
      << RawSeg("a"), EmptySeg, RawSeg("c") >>,
      << RawSeg("a"), RawSeg("b"), RawSeg("c") >>,
      << B64(Stringify(hs384Header)), B64(Stringify(otherPayload)), EmptySeg >>,
      Sign(hs384Header, otherPayload, "s2") }

PasteToken == \E value \in FormatTexts \ { token } : handleTokenChange(value)

NextPaste ==
    \/ PasteToken
    \/ EncodeCompletes
    \/ VerifyCompletes

SpecPaste == Init /\ [][NextPaste]_vars

\* the same session, in which every sign() and every jwtVerify() that was
\* called settles: the promises of Web Crypto resolve or reject
SpecStart ==
    /\ Init
    /\ [][NextPaste]_vars
    /\ WF_vars(EncodeCompletes)
    /\ WF_vars(VerifyCompletes)

(* Payloads with time claims, entered as text or pasted in a token *)

\* nbf given as a string
stringNbfPayload == << <<"sub", "2">>, StringClaim("nbf", "tomorrow") >>

\* nbf and iat after the time of verification
futurePayload == << <<"iat", Now0 + 3600>>, <<"nbf", Now0 + 3600>> >>

\* otherPayload has expired before the time of verification
ClaimTexts ==
    { Stringify(otherPayload), Stringify(futurePayload), Stringify(stringNbfPayload) }

SignedTexts ==
    { Sign(defaultHeader, otherPayload, defaultSecret),
      Sign(hs384Header, stringNbfPayload, defaultSecret) }

EditClaims == \E value \in ClaimTexts \ { payload } : handlePayloadChange(value)

PasteSigned == \E value \in SignedTexts \ { token } : handleTokenChange(value)

NextVerify ==
    \/ EditClaims
    \/ PasteSigned
    \/ EditSecret
    \/ EncodeCompletes
    \/ VerifyCompletes

SpecVerify == Init /\ [][NextVerify]_vars

(* Timestamps taken to their display text and back, on hosts of several   *)
(* fixed offsets                                                           *)

\* Date.getTimezoneOffset() of the hosts: UTC+01:30, UTC, UTC-05:00, UTC+05:45
TzOffsets == { TzOffsetMin, 0, 300, 0 - 345 }

InitTime ==
    /\ SessionInit(FreshStorages)
    /\ BatchInit
    /\ probe \in [stage : { "input" }, epoch : (0 - MaxEpoch)..MaxEpoch,
                  mode : Modes, tz : TzOffsets]

\* updateExpEditValue(epochTime) in the mode of the probe
ShowTimestamp ==
    /\ probe.stage = "input"
    /\ probe' = Shown(probe)
    /\ ev' = [op |-> "updateExpEditValue", gen |-> "none", ver |-> version]
    /\ UNCHANGED batchVars
    /\ UNCHANGED << token, header, payload, secret, isVerified, algorithmSupported,
                    tokenParts, expEditMode, expDateValue, tokenHistory, storage,
                    encodes, verifies, clock, version, applied, last >>

\* newExpTime of handleExpValueChange for the text shown
ReadTimestamp ==
    /\ probe.stage = "shown"
    /\ probe' = ReadBack(probe)
    /\ ev' = [op |-> "newExpTime", gen |-> "none", ver |-> version]
    /\ UNCHANGED batchVars
    /\ UNCHANGED << token, header, payload, secret, isVerified, algorithmSupported,
                    tokenParts, expEditMode, expDateValue, tokenHistory, storage,
                    encodes, verifies, clock, version, applied, last >>

NextTime ==
    \/ ShowTimestamp
    \/ ReadTimestamp

SpecTime == InitTime /\ [][NextTime]_vars

(* The batch dialog, opened on a first session with a text already pasted *)

\* a payload without exp
noExpPayload == << <<"sub", "3">> >>

\* the lines of a batch text: a blank line, two tokens signed elsewhere,
\* and a line that is no token
LineTexts ==
    { EmptyToken,
      Sign(defaultHeader, otherPayload, "s2"),
      Sign(hs384Header, noExpPayload, defaultSecret),
      << [t |-> "raw", s |-> "abc"] >> }

BatchTexts == UNION { [1..n -> LineTexts] : n \in 1..MaxLines }

InitBatch ==
    /\ SessionInit(FreshStorages)
    /\ probe = NoProbe
    /\ batchTokens \in BatchTexts
    /\ batchExpValue = NoText
    /\ batchExpMode = "epoch"
    /\ processedBatchTokens = << >>
    /\ batchErrors = << >>

ClearBatchTokens == batchTokens # EmptyText /\ setBatchTokens(EmptyText)

\* the expiration texts typed in the dialog
BatchExpTexts == { Dec(2000), Wall(3), NoText }

EditBatchExpValue ==
    \E value \in BatchExpTexts \ { batchExpValue } :
        Delivers(batchExpMode, value) /\ setBatchExpValue(value)

EditBatchExpMode == \E mode \in Modes : setBatchExpMode(mode)

ProcessBatch == processBatchTokens

ResetBatch == resetBatchProcessing

ClearSecret == secret # "" /\ handleSecretChange("")

NextBatch ==
    \/ ClearBatchTokens
    \/ EditBatchExpValue
    \/ EditBatchExpMode
    \/ ProcessBatch
    \/ ResetBatch
    \/ ClearSecret

SpecBatch == InitBatch /\ [][NextBatch]_vars

(* The batch dialog with lines whose header names an alg outside the set *)

rs256Header == << <<"alg", "RS256">>, <<"typ", "JWT">> >>

\* an unsecured token (no signature text), a token signed elsewhere with a
\* private key, and a token signed with a shared secret
AlgLineTexts ==
    { << B64(Stringify(noneHeader)), B64(Stringify(otherPayload)), EmptySeg >>,
      << B64(Stringify(rs256Header)), B64(Stringify(noExpPayload)),
         SigSeg("RS256", "private key", B64(Stringify(rs256Header)),
                B64(Stringify(noExpPayload))) >>,
      Sign(defaultHeader, otherPayload, "s2") }

InitBatchAlg ==
    /\ SessionInit(FreshStorages)
    /\ probe = NoProbe
    /\ batchTokens \in UNION { [1..n -> AlgLineTexts] : n \in 1..MaxLines }
    /\ batchExpValue = NoText
    /\ batchExpMode = "epoch"
    /\ processedBatchTokens = << >>
    /\ batchErrors = << >>

SpecBatchAlg == InitBatchAlg /\ [][NextBatch]_vars

(* The expiration editor next to the payload, the token and the history *)

\* a payload that expires at the epoch
zeroExpPayload == << <<"sub", "2">>, <<"exp", 0>> >>

ExpPayloadTexts == { Stringify(zeroExpPayload), Stringify(otherPayload) }

\* the texts the expiration field delivers: those of the session and a
\* number that is no integer
ExpFieldTexts == ExpTexts \cup { Frac(12) }

EditExpPayload == \E value \in ExpPayloadTexts \ { payload } : handlePayloadChange(value)

PasteExpToken ==
    \E value \in { Sign(defaultHeader, zeroExpPayload, defaultSecret) } \ { token } :
        handleTokenChange(value)

TypeExpValue ==
    \E value \in ExpFieldTexts \ { expDateValue } :
        Delivers(expEditMode, value) /\ handleExpValueChange(value)

NextExp ==
    \/ EditExpPayload
    \/ PasteExpToken
    \/ TypeExpValue
    \/ EditExpMode
    \/ ClearSecret
    \/ LoadHistory
    \/ EncodeCompletes
    \/ VerifyCompletes

SpecExp == Init /\ [][NextExp]_vars

----------------------------------------------------------------------------
(* Properties *)

Quiescent == encodes = { } /\ verifies = { }

\* C1: an Encode that resumes after the Encode of a later edit has resumed
\* is discarded: it leaves the displayed token as it is (so that, when no
\* Encode is left in flight, the token is that of the most recent edit).
C1_EncodeLastWriteWins ==
    [][ (ev'.op = "EncodeDone" /\ ev'.ver < applied) => token' = token ]_vars

\* C2: when no Verify is in flight, a verification outcome that is shown for
\* a token and a secret that were verified is the outcome of Verify on the
\* current token and the current secret.
C2_VerifyLastWriteWins ==
    (verifies = { } /\ token # EmptyToken /\ secret # "" /\ isVerified # "null")
        => isVerified = VerifyResult(token, secret)

\* C3: the history holds at most 10 entries, in memory and in storage.
C3_HistoryBound ==
    Len(tokenHistory) <= HistoryCap /\ Len(storage) <= HistoryCap

\* an encode resumed on a full history: the oldest stored entry was evicted
C3_Witness ==
    /\ ev.op = "EncodeDone"
    /\ Len(tokenHistory) = HistoryCap
    /\ Len(storage) = HistoryCap
    /\ tokenHistory[1].id > 0
    /\ tokenHistory[HistoryCap] = OldEntry(HistoryCap - 1)

\* C4: every successful encode puts its entry in front of the history as it
\* is, and drops the oldest entry when that gives 11 (so that 11 encodes
\* from an empty history leave the entries of encodes 2..11, newest first).
C4_PrependAndEvict ==
    [][ ev'.op = "EncodeDone" =>
          /\ tokenHistory' = Take(<< tokenHistory'[1] >> \o tokenHistory, HistoryCap)
          /\ tokenHistory'[1].token = token'
          /\ storage' = tokenHistory' ]_vars

\* C5: no entry is lost to another encode: the entries that are among the
\* 9 newest when an encode succeeds are still in the history after it.
C5_NoEntryLost ==
    [][ ev'.op = "EncodeDone" =>
          \A i \in 1..Len(tokenHistory) :
              i < HistoryCap =>
                  \E j \in 1..Len(tokenHistory') : tokenHistory'[j] = tokenHistory[i] ]_vars

\* C6: when the initial default token has been encoded (and nothing else
\* was done), the newest entry loaded from storage comes right after the
\* new entry: the first encode does not drop the persisted entries.
C6_LoadedHistoryKept ==
    (ev.op = "EncodeDone" /\ ev.ver = 0 /\ version = 0) =>
        /\ Len(tokenHistory) > 1
        /\ tokenHistory[2] = OldEntry(1)
        /\ storage = tokenHistory

\* C7: an event that asks for an encode with a header whose alg is not
\* supported starts no signing, leaves the token, the segments shown and the
\* history as they are, and sets algorithmSupported to false.
C7_UnsupportedAlgBlocks ==
    [][ ev'.gen = "unsupported" =>
          /\ encodes' = encodes
          /\ token' = token
          /\ tokenParts' = tokenParts
          /\ tokenHistory' = tokenHistory
          /\ storage' = storage
          /\ algorithmSupported' = FALSE ]_vars

\* the same frame for the events whose payload is a JSON object (a payload
\* text that parses to null is what the events above differ by)
UnsupportedAlgBlocksForObjects ==
    [][ (ev'.gen = "unsupported" /\ ParsesToObject(payload')) =>
          /\ encodes' = encodes
          /\ token' = token
          /\ tokenParts' = tokenParts
          /\ tokenHistory' = tokenHistory
          /\ storage' = storage
          /\ algorithmSupported' = FALSE ]_vars

\* C8: EditHeader and EditPayload, when the header text or the payload text
\* then does not parse as JSON, report the JSON parse error and change
\* nothing but the edited text and the error shown: no encode is started,
\* and the token, the secret and the history are as before.
C8_JsonErrorLeavesToken ==
    [][ (ev'.op \in {"EditHeader", "EditPayload"}
            /\ ~(Parses(header') /\ Parses(payload'))) =>
          /\ tokenParts'.error /\ tokenParts'.errorType = "invalidJson"
          /\ ev'.gen = "none"
          /\ UNCHANGED << token, secret, tokenHistory, storage, encodes, verifies,
                          isVerified, algorithmSupported, expEditMode,
                          expDateValue >>
          /\ (ev'.op = "EditHeader" => payload' = payload)
          /\ (ev'.op = "EditPayload" => header' = header) ]_vars

\* a header edit was refused for its JSON while a token was displayed
C8_Witness ==
    /\ ev.op = "EditHeader"
    /\ ~Parses(header)
    /\ tokenParts.errorType = "invalidJson"
    /\ token # EmptyToken

\* C9: while the token cannot be decoded and the secret is not empty,
\* verified is Indeterminate once no verification is in flight.
C9_UndecodableStaysIndeterminate ==
    (~DecodeOk(token) /\ secret # "" /\ verifies = { }) => isVerified = "null"

\* C10: in a quiescent state whose token decodes into a header and a
\* payload, verified is Verified or Invalid.
C10_DecodableIsDecided ==
    (Quiescent /\ DecodeOk(token)) => isVerified \in {"true", "false"}

\* C11: verification follows every change of the token or the secret, a
\* secret changed to the empty text included: a quiescent state never shows
\* the outcome computed for a previous secret.  No token verifies under the
\* empty secret, so when the secret is emptied in a quiescent state and the
\* state that follows is quiescent, that state does not show Verified.
C11_NoStaleVerdict ==
    [][ (ev'.op = "EditSecret" /\ secret' = "" /\ Quiescent /\ Quiescent')
          => isVerified' # "true" ]_vars

\* C12: after EditSecret with a non-empty text, while header and payload
\* parse and the algorithm is supported, once the encode and the
\* verification have completed the token is signed with that text and
\* verified is Verified.
C12_SecretEditReencodes ==
    ( /\ Quiescent
      /\ last.op = "EditSecret"
      /\ secret # ""
      /\ ParsesToObject(header) /\ ParsesToObject(payload)
      /\ IsSupported(ParseObj(header)) )
    => /\ token = Sign(ParseObj(header), ParseObj(payload), secret)
       /\ isVerified = "true"

C14_EmptySecretRejected ==
    [][ /\ (ev'.op = "EditSecret" /\ secret' = "") =>
             /\ tokenParts'.error /\ tokenParts'.errorType = "emptySecret"
             /\ ev'.gen = "none"
             /\ UNCHANGED << token, header, payload, tokenHistory, storage,
                             encodes >>
        /\ (ev'.op = "EditSecret" /\ secret = "" /\ ~IsBlank(secret')
               /\ ParsesToObject(header) /\ ParsesToObject(payload)
               /\ IsSupported(ParseObj(header))) =>
             /\ ev'.gen = "started"
             /\ \E job \in encodes' \ encodes : job.secretKey = secret' ]_vars

\* the secret was emptied while a token and its history entry were shown
C14_Witness ==
    /\ ev.op = "EditSecret"
    /\ secret = ""
    /\ tokenParts.errorType = "emptySecret"
    /\ token # EmptyToken
    /\ tokenHistory # << >>

\* C15: EditToken of a text that does not split into exactly three
\* non-empty segments leaves the displayed header and payload unchanged.
C15_RejectedTextLeavesFields ==
    [][ (ev'.op = "EditToken" /\ ~ThreeSegments(token')) =>
          (header' = header /\ payload' = payload) ]_vars

\* C16: EditToken of a text that decodes only decodes: header and payload
\* become the decoded header and payload, the token shown is the text
\* entered, no encode is started, and the secret and the history are as
\* before.
C16_DecodeOnly ==
    [][ (ev'.op = "EditToken" /\ DecodeOk(token')) =>
          /\ header' = StringifyPretty(decodeProtectedHeader(token'))
          /\ payload' = StringifyPretty(decodeJwt(token'))
          /\ token' \in TokenTexts \cup FormatTexts
          /\ tokenParts' = updateTokenParts(token')
          /\ ev'.gen = "none"
          /\ UNCHANGED << secret, tokenHistory, storage, encodes >> ]_vars

\* a token signed with another secret was entered and decoded
C16_Witness ==
    /\ ev.op = "EditToken"
    /\ DecodeOk(token)
    /\ ~JwtVerify(token, secret)
    /\ header = StringifyPretty(decodeProtectedHeader(token))
    /\ payload = StringifyPretty(decodeJwt(token))
    /\ encodes = { }

\* processBatchTokens has just run its loop
BatchRan == ev.op = "processBatchTokens" /\ ev.gen = "ran"

\* the positions of the lines of the batch text that are not blank
NonBlankLines == { j \in 1..Len(batchTokens) : batchTokens[j] # EmptyToken }

\* C17: one line that fails does not stop the batch, and every non-blank
\* line yields exactly one entry: a result when it decodes and is re-signed,
\* an error otherwise; results and errors together count the non-blank lines.
C17_EveryLineAnswered ==
    BatchRan =>
      LET resigned == { j \in NonBlankLines : Resigns(batchTokens[j], secret) }
      IN  /\ Len(processedBatchTokens) = Cardinality(resigned)
          /\ Len(batchErrors) = Cardinality(NonBlankLines \ resigned)
          /\ Len(processedBatchTokens) + Len(batchErrors)
               = Cardinality(NonBlankLines)
          /\ \A k \in 1..Len(batchErrors) : batchErrors[k].lineNumber > 0

\* a batch with a blank line, a line re-signed and a line that failed
C17_Witness ==
    /\ BatchRan
    /\ Cardinality(NonBlankLines) < Len(batchTokens)
    /\ Len(processedBatchTokens) > 0
    /\ Len(batchErrors) > 0

\* C18: results and errors follow the order of the input lines; three
\* lines of which the second is malformed give the results of lines 1 and
\* 3, in that order, and one error for line 2.
C18_OrderPreserved ==
    BatchRan =>
      /\ [ k \in 1..Len(processedBatchTokens) |-> processedBatchTokens[k].original ]
           = SelectSeq(batchTokens,
                       LAMBDA line : line # EmptyToken /\ Resigns(line, secret))
      /\ \A k \in 1..(Len(processedBatchTokens) - 1) :
            processedBatchTokens[k].lineNumber
              < processedBatchTokens[k + 1].lineNumber
      /\ \A k \in 1..(Len(batchErrors) - 1) :
            batchErrors[k].lineNumber < batchErrors[k + 1].lineNumber
      /\ ( /\ Len(batchTokens) = 3
           /\ Resigns(batchTokens[1], secret)
           /\ batchTokens[2] # EmptyToken /\ ~DecodeOk(batchTokens[2])
           /\ Resigns(batchTokens[3], secret) ) =>
           /\ Len(processedBatchTokens) = 2
           /\ processedBatchTokens[1].lineNumber = 1
           /\ processedBatchTokens[1].original = batchTokens[1]
           /\ processedBatchTokens[2].lineNumber = 3
           /\ processedBatchTokens[2].original = batchTokens[3]
           /\ Len(batchErrors) = 1
           /\ batchErrors[1].lineNumber = 2

\* three lines, two different tokens around a malformed one, were processed
C18_Witness ==
    /\ BatchRan
    /\ Len(batchTokens) = 3
    /\ DecodeOk(batchTokens[1]) /\ DecodeOk(batchTokens[3])
    /\ batchTokens[1] # batchTokens[3]
    /\ batchTokens[2] # EmptyToken /\ ~DecodeOk(batchTokens[2])
    /\ Len(processedBatchTokens) = 2
    /\ Len(batchErrors) = 1

\* C19: the lineNumber of a result or an error is the position of its line
\* in the batch text as entered, blank lines counted.
C19_LineNumberIsPosition ==
    BatchRan =>
      /\ \A k \in 1..Len(processedBatchTokens) :
            LET r == processedBatchTokens[k]
            IN  /\ r.lineNumber \in NonBlankLines
                /\ batchTokens[r.lineNumber] = r.original
      /\ \A k \in 1..Len(batchErrors) :
            LET e == batchErrors[k]
            IN  /\ e.lineNumber \in NonBlankLines
                /\ ~Resigns(batchTokens[e.lineNumber], secret)

MinuteFloor(e) ==
    CHOOSE m \in (e - 59)..e : \E q \in (0 - MaxEpoch - 2)..(MaxEpoch + 2) : m = 60 * q

OutsideAlgSet(line) == DecodeOk(line) /\ ~IsSupported(decodeProtectedHeader(line))

\* C21: Batch Process never signs outside the closed algorithm set: a line
\* whose decoded header has an alg other than HS256, HS384, HS512 is the
\* original of no result, and every result carries a header of the set.
C21_BatchSignsInsideAlgSet ==
    /\ \A k \in 1..Len(processedBatchTokens) :
          /\ ~OutsideAlgSet(processedBatchTokens[k].original)
          /\ IsSupported(processedBatchTokens[k].header)
    /\ BatchRan =>
          \A j \in 1..Len(batchTokens) :
              OutsideAlgSet(batchTokens[j]) =>
                  \E m \in 1..Len(batchErrors) :
                      batchErrors[m] = BatchError(batchTokens[j], batchErrors[m].lineNumber)

\* a batch of an unsecured line and an HS256 line was processed: the first
\* is an error, the second a result
C21_Witness ==
    /\ BatchRan
    /\ Len(batchTokens) = 2
    /\ OutsideAlgSet(batchTokens[1])
    /\ Get(decodeProtectedHeader(batchTokens[1]), "alg") = "none"
    /\ Len(processedBatchTokens) = 1
    /\ processedBatchTokens[1].original = batchTokens[2]
    /\ Len(batchErrors) = 1
    /\ batchErrors[1] = [lineNumber |-> 1, message |-> "sign"]

\* the verification that has just completed
Verified == verifies \ verifies'

\* C24: expiration blindness. The result of a verification depends only on
\* whether the signature matches the secret: a token whose signature
\* matches verifies true for every value of exp, nbf and iat in its payload.
C24_ExpirationBlind ==
    [][ev'.op = "VerifyDone" =>
          \A job \in Verified :
              isVerified' = "true" <=> SignatureMatches(job.jwtToken, job.secretKey)]_vars

\* the token is the encoding under key of the header and the payload it carries
IsEncoding(jwtToken, key) ==
    /\ key # ""
    /\ DecodeOk(jwtToken)
    /\ IsSupported(decodeProtectedHeader(jwtToken))
    /\ jwtToken = Sign(decodeProtectedHeader(jwtToken), decodeJwt(jwtToken), key)

\* C25: signature correctness. For every header with a supported alg, every
\* payload and every non-empty secret, the verification of
\* Encode(h, p, secret) is true under secret and false under every other
\* secret.
C25_SignatureCorrect ==
    [][ev'.op = "VerifyDone" =>
          \A job \in Verified : \A key \in SecretTexts :
              IsEncoding(job.jwtToken, key) =>
                  (isVerified' = "true" <=> key = job.secretKey)]_vars

\* the last event was an edit of the header or the payload that started an
\* encode with a secret, and that encode has completed
EditEncoded ==
    /\ last.op \in { "EditHeader", "EditPayload" }
    /\ last.gen = "started"
    /\ secret # ""
    /\ applied >= last.ver
    /\ \A job \in encodes : job.ver # last.ver

\* C26: two-way synchronisation round trip. After a successful EditHeader
\* or EditPayload with a supported alg, once its encode has completed and no
\* newer edit was made, the displayed token decodes to exactly the
\* displayed header and payload, and the texts that EditToken of that token
\* writes have the same JSON values.
C26_TwoWayRoundTrip ==
    EditEncoded =>
        /\ DecodeOk(token)
        /\ decodeProtectedHeader(token) = ParseObj(header)
        /\ decodeJwt(token) = ParseObj(payload)
        /\ ParseObj(StringifyPretty(decodeProtectedHeader(token))) = ParseObj(header)
        /\ ParseObj(StringifyPretty(decodeJwt(token))) = ParseObj(payload)

\* C27: decode independence. What EditToken(text) leaves in the header and
\* the payload, and whether the decode succeeds or fails, is determined by
\* the text and the fields before: sessions that differ only in their
\* secret (an empty secret included) end the same.
C27_DecodeIgnoresSecret ==
    [][ ev'.op = "EditToken" =>
          /\ tokenParts' = updateTokenParts(token')
          /\ IF DecodeOk(token')
             THEN /\ header' = StringifyPretty(decodeProtectedHeader(token'))
                  /\ payload' = StringifyPretty(decodeJwt(token'))
                  /\ isVerified' = isVerified
             ELSE /\ header' = header
                  /\ payload' = payload
                  /\ isVerified' = "null" ]_vars

\* with the secret cleared, a token signed elsewhere was entered and decoded
C27_Witness ==
    /\ ev.op = "EditToken"
    /\ secret = ""
    /\ token = Sign(hs384Header, otherPayload, "s2")
    /\ header = StringifyPretty(hs384Header)
    /\ payload = StringifyPretty(otherPayload)

\* C28: the expiration display is refreshed whenever exp is present. After
\* a successful EditPayload, a successful EditToken or a history load whose
\* payload contains exp, for every integer value of exp, the display
\* equals ToDisplay(exp, current mode).
C28_ExpDisplayRefreshed ==
    [][ ( /\ \/ ev'.op = "EditPayload" /\ ev'.gen = "started"
             \/ ev'.op = "EditToken" /\ DecodeOk(token')
             \/ ev'.op = "LoadHistory"
          /\ ParsesToObject(payload')
          /\ Has(ParseObj(payload'), "exp") )
        => expDateValue' = ToDisplay(Get(ParseObj(payload'), "exp"), expEditMode') ]_vars

\* the text is one that FromDisplay reads in the mode: a decimal integer
\* in epoch mode, a wall-clock minute in the other two
ParsesInMode(text, mode) ==
    IF mode = "epoch" THEN text.k = "dec" ELSE text.k = "wall"

\* the payload with exp set to what FromDisplay reads from the text
ExpEdited(text, value, mode) ==
    Put(ParseObj(text), "exp", FromDisplay(value, mode).n)

\* C29: an expiration edit with a value that parses in the current mode
\* updates the payload and the token together. payload.exp becomes
\* FromDisplay(value, mode) with every other claim unchanged, an encode of
\* that payload is started, and, the alg being supported, that encode does
\* not fail: the payload text is never changed without the token being
\* re-encoded from it.
C29_ExpEditReencodes ==
    [][ /\ ( /\ ev'.op = "EditExp"
             /\ ParsesInMode(expDateValue', expEditMode)
             /\ ParsesToObject(payload)
             /\ ParsesToObject(header)
             /\ IsSupported(ParseObj(header)) )
           => ( /\ payload' = StringifyPretty(ExpEdited(payload, expDateValue', expEditMode))
                /\ \E job \in encodes' \ encodes :
                      /\ job.payloadObj = ExpEdited(payload, expDateValue', expEditMode)
                      /\ job.headerObj = ParseObj(header) )
        /\ ( /\ ev'.op = "EditExp"
             /\ payload' # payload
             /\ ParsesToObject(header)
             /\ IsSupported(ParseObj(header)) )
           => encodes' # encodes
        /\ ~ ( /\ ev'.op = "EncodeFailed"
               /\ last.op = "EditExp"
               /\ ev'.ver = last.ver
               /\ ParsesToObject(header)
               /\ IsSupported(ParseObj(header)) ) ]_vars

\* C30: an expiration edit whose text does not parse in the current mode is
\* recovered locally: the payload, the token, the secret and the history
\* are unchanged and no encode is started.
C30_UnparsedExpIgnored ==
    [][ (ev'.op = "EditExp" /\ ~ParsesInMode(expDateValue', expEditMode))
        => UNCHANGED << payload, token, secret, tokenHistory, storage, encodes >> ]_vars

\* the segments shown carry no error and are not empty
PartsShown == ~tokenParts.error /\ tokenParts # NoParts

\* C31: in every reachable state, when the displayed token segments carry
\* no error and are non-empty, they are exactly the 3 non-empty segments of
\* the current token text: the segments never show another token.
C31_PartsAreTokenSegments ==
    PartsShown =>
        /\ token = << tokenParts.header, tokenParts.payload, tokenParts.signature >>
        /\ tokenParts.header # EmptySeg
        /\ tokenParts.payload # EmptySeg
        /\ tokenParts.signature # EmptySeg

\* an encode has completed over a token that was entered by hand: the
\* segments shown are those of the encoded token
C31_Witness ==
    /\ ev.op = "EncodeDone"
    /\ last.op = "EditToken"
    /\ PartsShown
    /\ token = Sign(defaultHeader, defaultPayload, defaultSecret)
    /\ tokenParts.signature = token[3]

\* C32: algorithmSupported is derived from the displayed header. In every
\* quiescent state in which the header text parses as JSON,
\* algorithmSupported is true if and only if the alg of the header is one
\* of HS256, HS384, HS512.
C32_AlgorithmFlagFollowsHeader ==
    (Quiescent /\ ParsesToObject(header)) =>
        (algorithmSupported <=> IsSupported(ParseObj(header)))

\* the entries of a history
Entries(hist) == { hist[i] : i \in 1..Len(hist) }

\* C33: after Clear, the history and the persisted store are empty, and no
\* entry created before the Clear ever reappears in the history, also when
\* an encode that was started before the Clear completes after it: such a
\* completion adds its own entry, the first, and nothing else.
C33_ClearedEntriesStayGone ==
    [][ /\ ev'.op = "ClearHistory" => (tokenHistory' = << >> /\ storage' = << >>)
        /\ (last.op = "ClearHistory" /\ ev'.op = "EncodeDone")
           => /\ Entries(tokenHistory') \subseteq
                    Entries(tokenHistory) \cup { tokenHistory'[1] }
              /\ Entries(storage') \subseteq
                    Entries(storage) \cup { storage'[1] } ]_vars

\* C34: write-through. After the initial load, the in-memory history and
\* the persisted history are equal in every reachable state: a successful
\* encode and Clear change both to the same sequence.
C34_WriteThrough == tokenHistory = storage

\* an encode has completed after a Clear of a loaded history: both hold
\* the entries the encode wrote
C34_Witness ==
    /\ ev.op = "EncodeDone"
    /\ last.op = "ClearHistory"
    /\ Len(storage) > 0
    /\ tokenHistory = storage
    /\ storage[1].token = token

\* C35: Batch Process is independent of the editing session: running it,
\* with any input and any outcome, leaves the token, header, payload,
\* secret, verified and history of the session unchanged, and adds no
\* history entry.
C35_BatchLeavesSession ==
    [][ ev'.op = "processBatchTokens" =>
          UNCHANGED << token, header, payload, secret, isVerified, tokenHistory,
                       storage, encodes, verifies >> ]_vars

\* a batch has re-signed a line and the session shows no token and no history
C35_Witness ==
    /\ BatchRan
    /\ Len(processedBatchTokens) > 0
    /\ processedBatchTokens[1].newToken # token
    /\ tokenHistory = << >>
    /\ header = StringifyPretty(defaultHeader)

\* the token of the defaults is displayed with its segments and verified
StartVerified ==
    /\ token = Sign(defaultHeader, defaultPayload, defaultSecret)
    /\ tokenParts = Parts(token[1], token[2], token[3], FALSE, "", "")
    /\ isVerified = "true"

\* C36: at session start a token is generated from the default header,
\* payload and secret, and, provided no edit is made in between, the
\* session eventually reaches a state where that token is displayed with
\* its 3 segments and verified is Verified.
C36_StartReachesVerified == <>(version > 0 \/ StartVerified)

\* the token of the defaults is verified before any edit
C36_Witness == version = 0 /\ StartVerified /\ Quiescent

\* C37: switching the expiration display mode changes only the mode and
\* the expiration display text: the token, header, payload, secret,
\* verified and history are unchanged, and when the payload has exp the
\* display becomes ToDisplay(exp, new mode).
C37_ModeSwitchOnlyRedisplays ==
    [][ ev'.op = "ExpMode" =>
          /\ UNCHANGED << token, header, payload, secret, isVerified,
                          tokenHistory, storage, encodes, verifies >>
          /\ (ParsesToObject(payload) /\ Has(ParseObj(payload), "exp"))
             => expDateValue' = ToDisplay(Get(ParseObj(payload), "exp"), expEditMode') ]_vars

\* C38: Batch Process invoked with no token text, with no expiration value,
\* or with an expiration value that does not parse in the selected mode
\* processes no line: it sets errors to a single message and leaves the
\* previously computed results unchanged.
C38_BatchRejectsBadInput ==
    [][ ( /\ ev'.op = "processBatchTokens"
          /\ \/ batchTokens = EmptyText
             \/ batchExpValue = NoText
             \/ ~ParsesInMode(batchExpValue, batchExpMode) )
        => /\ Len(batchErrors') = 1
           /\ batchErrors'[1].lineNumber = 0
           /\ processedBatchTokens' = processedBatchTokens ]_vars

\* the invalid-JSON error is displayed in place of the segments
JsonErrorShown == tokenParts.error /\ tokenParts.errorType = "invalidJson"

\* C39: whenever the invalid-JSON error is displayed, at least one of the
\* header text and the payload text does not parse as JSON: once both
\* parse again after an edit and the work it started has completed, the
\* error is no longer displayed, whatever the alg of the header is.
C39_JsonErrorMeansUnparsed ==
    (Quiescent /\ JsonErrorShown) => (~Parses(header) \/ ~Parses(payload))

\* the step has flipped one standard claim of the header, or one of the
\* payload, and left the other text as it was
FlippedOne ==
    \/ /\ payload' = payload
       /\ \E claimKey \in HeaderToggles :
             header' = StringifyPretty(Toggled(ParseObj(header), claimKey))
    \/ /\ header' = header
       /\ \E claimKey \in PayloadToggles :
             payload' = StringifyPretty(Toggled(ParseObj(payload), claimKey))

\* C40: toggling a standard claim flips the presence of exactly that claim
\* in the header or payload (removed if present, added with its default if
\* absent), leaves every other key and value unchanged, and re-encodes the
\* token; when the header or payload text does not parse as JSON the
\* toggle changes nothing.
C40_ToggleFlipsOneClaim ==
    [][ ev'.op = "Toggle" =>
          /\ (ParsesToObject(header) /\ ParsesToObject(payload))
             => /\ FlippedOne
                /\ IsSupported(ParseObj(header'))
                   => \E job \in encodes' \ encodes :
                         /\ job.headerObj = ParseObj(header')
                         /\ job.payloadObj = ParseObj(payload')
          /\ (~Parses(header) \/ ~Parses(payload))
             => UNCHANGED << header, payload, token, tokenParts, encodes >> ]_vars

====
